---- MODULE Spec2Model ----
(***************************************************************************)
(* Model of the Restash client: the uploader returned by                   *)
(* createRestashUploader (signature -> prepare -> transfer -> confirm) and *)
(* the signature generator (generateRestashSig / generateSig).             *)
(*                                                                         *)
(* The repository carries two revisions of the client module:              *)
(*   "index"    src/src/index.ts      (handleSignature is an upload option)*)
(*   "part_001" src/unnamed/part_001  (handleSignature is a factory option,*)
(*                                     Blob inputs, response validation)   *)
(* The variable build says which revision an uploader was built from.      *)
(*                                                                         *)
(* JavaScript values are represented as follows: a missing / undefined     *)
(* string is "", a missing number is 0 (both are falsy, like "" and 0);    *)
(* keys are sequences of characters so that startsWith is computed.        *)
(***************************************************************************)
EXTENDS Integers, Sequences, FiniteSets, TLC

\* ------------------------------------------------------------------ bounds
MaxSize == 2
MaxEvents == 2
MaxSigCalls == 2
MaxClock == 2
DigestBytes == 2

\* --------------------------------------------------------------- constants
BuildIndex == "index"
BuildPart == "part_001"
Builds == {BuildIndex, BuildPart}

Ids == {1, 2}

SecretPrefix == <<"s", "k", "_">>
PublicPrefix == <<"p", "k", "_">>

Keys == { <<>>,
          <<"s", "k", "_", "1">>,
          <<"p", "k", "_", "1">>,
          <<"k", "s", "k", "_">> }

MsgPublicKeyRequired == "Public key is required"
MsgPublicKeyInvalid == "Public key is invalid. You are currently using a secret key"
MsgFileInvalid == "File passed in is invalid"
MsgNotBlob == "Invalid file passed in. Please pass in a File or Blob"
MsgSigFailed == "Failed to get signature"
MsgSigInvalid == "Your signature endpoint did not return a valid signature"
MsgPayloadInvalid == "Your signature endpoint did not return a valid payload"
MsgPrepareInvalid == "Invalid response from prepare upload"
MsgUploadFailed == "Failed to upload file"
MsgSecretKeyRequired == "Secret key is required"
MsgSecretKeyInvalid == "Secret key is invalid. You are currently using a public key"
MsgBrowser == "Secret key should not be used in the browser. Please only use it in a server environment."
\* errors raised by the runtime and the transport, not by the client code
MsgFetchFailed == "TypeError: Failed to fetch"
MsgTypeError == "TypeError: Cannot read properties of undefined"
MsgAxiosNetwork == "AxiosError: Network Error"
MsgAxiosStatus == "AxiosError: Request failed with status code"
NoError == ""

\* ------------------------------------------------------------------ inputs
\* A File has a name, a Blob has none; "Other" is the plain object {} of the
\* tests, every field of which is undefined.
Kinds == {"File", "Blob", "Other"}
Files == { f \in [kind : Kinds, name : {"", "test.txt"},
                  type : {"", "text/plain"}, size : 0..MaxSize] :
             /\ f.kind = "Blob" => f.name = ""
             /\ f.kind = "Other" => (f.name = "" /\ f.type = "" /\ f.size = 0) }

Options == [name : {"", "renamed.txt"}, path : {"", "uploads/"},
            handleSignature : {"", "/api/sig"}, onProgress : BOOLEAN]

RandomNames == {"00112233aabbccdd", "ffeeddcc44556677"}

\* --------------------------------------------------------------- responses
NoBody == [tag |-> "none"]

SigResponses ==
    {[net |-> "fail", ok |-> FALSE, status |-> 0, body |-> NoBody],
     [net |-> "ok", ok |-> FALSE, status |-> 500, body |-> NoBody]}
    \cup {[net |-> "ok", ok |-> TRUE, status |-> 200,
           body |-> [tag |-> "sig", signature |-> s, payload |-> p]] :
            s \in {"", "abc123"}, p \in {"", "nonce:17"}}

ErrorBodies == {[tag |-> "error", hasError |-> TRUE, message |-> "Team quota exceeded"],
                [tag |-> "error", hasError |-> FALSE, message |-> ""]}

PrepareResponses ==
    {[net |-> "fail", ok |-> FALSE, status |-> 0, body |-> NoBody]}
    \cup {[net |-> "ok", ok |-> FALSE, status |-> 403, body |-> b] : b \in ErrorBodies}
    \cup {[net |-> "ok", ok |-> TRUE, status |-> 200,
           body |-> [tag |-> "prepare", url |-> u, hasFields |-> hf, confirmToken |-> t]] :
            u \in {"", "https://bucket.example/upload"}, hf \in BOOLEAN,
            t \in {"", "tok_1"}}

Statuses == {199, 200, 299, 300, 404}

TransferResponses ==
    {[net |-> "fail", ok |-> FALSE, status |-> 0, body |-> NoBody]}
    \cup {[net |-> "ok", ok |-> (st >= 200 /\ st < 300), status |-> st, body |-> NoBody] :
            st \in Statuses}

ResultBodies ==
    {[tag |-> "result", id |-> "f_1", name |-> "test.txt",
      contentType |-> "text/plain", size |-> 1],
     [tag |-> "result", id |-> "f_2", name |-> "server-name.bin",
      contentType |-> "application/octet-stream", size |-> 2]}

ConfirmResponses ==
    {[net |-> "fail", ok |-> FALSE, status |-> 0, body |-> NoBody]}
    \cup {[net |-> "ok", ok |-> FALSE, status |-> 400, body |-> b] : b \in ErrorBodies}
    \cup {[net |-> "ok", ok |-> TRUE, status |-> 200, body |-> b] : b \in ResultBodies}

VARIABLES
    build,          \* revision of the client module the uploader comes from
    uploader,       \* arguments of createRestashUploader
    invs,           \* the upload invocations of this run
    args,           \* args[i]: file and options of invocation i
    pc,             \* pc[i]: where invocation i is suspended
    log,            \* log[i]: requests issued and responses received, in order
    locals,         \* locals[i]: name, signature, payload, url, fields, confirmToken
    xfer,           \* xfer[i]: the transport's view of the running transfer
    progress,       \* progress[i]: the values passed to options.onProgress
    outcome,        \* outcome[i]: settlement of the returned promise
    windowDefined,  \* typeof window !== "undefined"
    clock,          \* Date.now()
    sigCalls        \* the calls of the signature generator, in order

uploadVars == <<build, uploader, invs, args, pc, log, locals, xfer, progress, outcome>>
sigVars == <<windowDefined, clock, sigCalls>>
vars == <<build, uploader, invs, args, pc, log, locals, xfer, progress, outcome,
          windowDefined, clock, sigCalls>>

\* ---------------------------------------------------------- pure functions
\* String.prototype.startsWith
StartsWith(s, p) == Len(s) >= Len(p) /\ SubSeq(s, 1, Len(p)) = p

\* variant: the emptiness check is missing
CheckPublicKeyNoEmpty(key) ==
    IF StartsWith(key, SecretPrefix) THEN MsgPublicKeyInvalid ELSE NoError

\* variant: the prefix tested is the public one
CheckPublicKeyWrongPrefix(key) ==
    IF key = <<>> THEN MsgPublicKeyRequired
    ELSE IF StartsWith(key, PublicPrefix) THEN MsgPublicKeyInvalid
    ELSE NoError

\* the two key checks at the head of the upload function
CheckPublicKey(key) ==
    IF key = <<>> THEN MsgPublicKeyRequired
    ELSE IF StartsWith(key, SecretPrefix) THEN MsgPublicKeyInvalid
    ELSE NoError

\* variant: the type is not checked
CheckFileNoType(file) ==
    IF file.name = "" \/ file.size = 0 THEN MsgFileInvalid ELSE NoError

\* index.ts: if (!name || !size || !type)
CheckFileIndex(file) ==
    IF file.name = "" \/ file.size = 0 \/ file.type = ""
    THEN MsgFileInvalid ELSE NoError

\* part_001: if (!(file instanceof Blob))
CheckFilePart(file) == IF file.kind = "Other" THEN MsgNotBlob ELSE NoError

\* the validation of the file argument
CheckFile(b, file) ==
    IF b = BuildIndex THEN CheckFileIndex(file) ELSE CheckFilePart(file)

\* the name sent to the prepare endpoint; rnd is randomBytes(8).toString("hex")
UploadName(b, file, options, rnd) ==
    IF b = BuildIndex THEN file.name
    ELSE IF options.name # "" THEN options.name
    ELSE IF file.kind = "File" THEN file.name
    ELSE rnd

\* the signature endpoint the invocation uses ("" when none)
SignatureEndpoint(b, up, options) ==
    IF b = BuildIndex THEN options.handleSignature ELSE up.handleSignature

\* JSON body of the prepare request: optional members are spread in when truthy
PrepareBody(name, file, path, signature, payload) ==
    [name |-> name, type |-> file.type, size |-> file.size,
     hasPath |-> path # "", path |-> path,
     hasSignature |-> signature # "", signature |-> signature,
     hasPayload |-> payload # "", payload |-> payload]

\* checks on the signature endpoint's JSON
CheckSignature(b, signature, payload) ==
    IF b = BuildIndex THEN NoError
    ELSE IF signature = "" THEN MsgSigInvalid
    ELSE IF payload = "" THEN MsgPayloadInvalid
    ELSE NoError

\* what the code does with a success body of prepare before the transfer:
\* part_001 validates it; index.ts feeds it to Object.entries, which throws
\* on undefined fields
CheckPrepare(b, body) ==
    IF b = BuildPart
    THEN IF body.url = "" \/ ~body.hasFields \/ body.confirmToken = ""
         THEN MsgPrepareInvalid ELSE NoError
    ELSE IF ~body.hasFields THEN MsgTypeError ELSE NoError

\* const { error } = await res.json(); throw new Error(error.message)
ErrorMessage(body) == IF body.hasError THEN body.message ELSE MsgTypeError

\* axios validateStatus: index.ts accepts every status, part_001 keeps the default
ValidateStatus(b, status) ==
    IF b = BuildIndex THEN TRUE ELSE status >= 200 /\ status < 300

\* outcome of the transfer as the code sees it
TransferError(b, res) ==
    IF res.net = "fail" THEN MsgAxiosNetwork
    ELSE IF ~ValidateStatus(b, res.status) THEN MsgAxiosStatus
    ELSE IF res.status < 200 \/ res.status >= 300 THEN MsgUploadFailed
    ELSE NoError

\* length of the multipart body that carries the fields and the file: the
\* file's bytes and the form's framing
BodyLength(file) == file.size + 1

\* variant: the quotient is truncated
RoundDown(n, d) == n \div d

\* Math.round(n / d) for n >= 0, d > 0
Round(n, d) == (2 * n + d) \div (2 * d)

\* total || 1, an unknown total being 0
TotalOr1(total) == IF total = 0 THEN 1 ELSE total

\* the value handed to options.onProgress for a transfer-progress event
ProgressValue(loaded, total) ==
    [percent |-> Round(loaded * 100, TotalOr1(total)),
     loaded |-> loaded, total |-> TotalOr1(total)]

\* variant: the client rebuilds the result and drops the id
UploadResultStripped(body) == [body EXCEPT !.id = ""]

\* the value the upload function returns for the confirm body
UploadResult(body) == body

\* ------------------------------------------------- signature generator
\* variant: the prefix tested is the secret one
CheckSecretKeyWrongPrefix(key) ==
    IF key = <<>> THEN MsgSecretKeyRequired
    ELSE IF StartsWith(key, SecretPrefix) THEN MsgSecretKeyInvalid
    ELSE NoError

\* the first two checks of the generator, on the secret key alone
CheckSecretKey(key) ==
    IF key = <<>> THEN MsgSecretKeyRequired
    ELSE IF StartsWith(key, PublicPrefix) THEN MsgSecretKeyInvalid
    ELSE NoError

\* variant: the browser check is missing
CheckGenerateNoWindow(key, window) == CheckSecretKey(key)

\* the three checks of the generator, in the order of the code
CheckGenerate(key, window) ==
    IF CheckSecretKey(key) # NoError THEN CheckSecretKey(key)
    ELSE IF window THEN MsgBrowser
    ELSE NoError

\* decimal digits of a timestamp, as the template literal prints them
DigitChar(d) == <<"0", "1", "2", "3", "4", "5", "6", "7", "8", "9">>[d + 1]

RECURSIVE Digits(_)
Digits(n) == IF n < 10 THEN <<DigitChar(n)>>
             ELSE Digits(n \div 10) \o <<DigitChar(n % 10)>>

\* the random request id: nanoid(32) of ./lib/alphabet in index.ts,
\* randomUUID() in part_001; shortened to a few characters
NanoIds == {<<"a", "Z">>, <<"0", "9">>}
Uuids == {<<"a", "-", "1">>, <<"f", "-", "0">>}
RequestIds(b) == IF b = BuildIndex THEN NanoIds ELSE Uuids

\* variant: the timestamp is printed first
PayloadSwapped(requestId, timestamp) == Digits(timestamp) \o <<":">> \o requestId

\* the times at which the generator is first called: one before and one
\* after the timestamp gets a second digit
ClockStarts == {0, 9}

\* `${requestId}:${timestamp}`
Payload(requestId, timestamp) == requestId \o <<":">> \o Digits(timestamp)

\* the characters of the keys, request ids and payloads, and their codes
Alphabet == <<"0", "1", "2", "3", "4", "5", "6", "7", "8", "9", "a", "f", "k",
              "p", "s", "Z", "_", "-", ":">>
CharCode(c) == CHOOSE n \in 1..Len(Alphabet) : Alphabet[n] = c

\* createHmac("sha256", key).update(msg).digest(): a keyed digest of fixed
\* length. SHA-256 itself is the runtime's; it is stood for by a
\* deterministic mix of the key's and the message's characters, DigestBytes
\* bytes long instead of 32.
RECURSIVE Mix(_, _, _)
Mix(str, salt, acc) ==
    IF str = <<>> THEN acc
    ELSE Mix(Tail(str), salt, (acc * 31 + CharCode(Head(str)) + salt) % 256)

HmacSha256(key, msg) ==
    [j \in 1..DigestBytes |-> Mix(msg, j, Mix(key, j, 7 * j))]

\* .digest("hex"): two lowercase hexadecimal digits per byte
HexDigit(n) ==
    <<"0", "1", "2", "3", "4", "5", "6", "7", "8", "9",
      "a", "b", "c", "d", "e", "f">>[n + 1]

RECURSIVE HexEncode(_)
HexEncode(bytes) ==
    IF bytes = <<>> THEN <<>>
    ELSE <<HexDigit(Head(bytes) \div 16), HexDigit(Head(bytes) % 16)>>
         \o HexEncode(Tail(bytes))

\* createHmac("sha256", key).update(msg).digest("hex")
HmacSha256Hex(key, msg) == HexEncode(HmacSha256(key, msg))

NoSig == [payload |-> <<>>, signature |-> <<>>]

\* one call of the generator: what it throws or returns, and whether the
\* HMAC was computed
Generate(key, window, requestId, timestamp) ==
    IF CheckGenerate(key, window) # NoError
    THEN [key |-> key, window |-> window, kind |-> "thrown",
          message |-> CheckGenerate(key, window), hmac |-> FALSE,
          requestId |-> <<>>, timestamp |-> 0, value |-> NoSig]
    ELSE [key |-> key, window |-> window, kind |-> "returned",
          message |-> "", hmac |-> TRUE,
          requestId |-> requestId, timestamp |-> timestamp,
          value |-> [payload |-> Payload(requestId, timestamp),
                     signature |-> HmacSha256Hex(key, Payload(requestId, timestamp))]]

\* ------------------------------------------------- one invocation's state
Req(step, data) == [step |-> step, ev |-> "req", data |-> data]
Res(step, res) == [step |-> step, ev |-> "res", data |-> res]

NoLocals == [name |-> "", signature |-> "", payload |-> "", url |-> "",
             hasFields |-> FALSE, confirmToken |-> ""]
NoOutcome == [kind |-> "none", message |-> "", value |-> NoBody]
NoXfer == [total |-> 0, loaded |-> 0, events |-> 0, reported |-> 0]

\* st = [pc, log, locals, outcome] of one invocation
Reject(st, msg) ==
    [st EXCEPT !.pc = "done",
               !.outcome = [kind |-> "rejected", message |-> msg, value |-> NoBody]]

\* variant: the function ends without settling the promise it returned
ResolveUnsettled(st, value) == [st EXCEPT !.pc = "done"]

Resolve(st, value) ==
    [st EXCEPT !.pc = "done",
               !.outcome = [kind |-> "resolved", message |-> "", value |-> value]]

Issue(st, step, data, nextpc) ==
    [st EXCEPT !.pc = nextpc, !.log = Append(@, Req(step, data))]

Received(st, step, res) == [st EXCEPT !.log = Append(@, Res(step, res))]

IssuePrepare(st, a) ==
    Issue(st, "prepare",
          PrepareBody(st.locals.name, a.file, a.options.path,
                      st.locals.signature, st.locals.payload),
          "awaitPrepare")

\* variant: the signature request is not awaited
OnInvokeNoAwait(b, up, a, st, rnd) ==
    IF CheckPublicKey(up.publicKey) # NoError
    THEN Reject(st, CheckPublicKey(up.publicKey))
    ELSE IF CheckFile(b, a.file) # NoError
    THEN Reject(st, CheckFile(b, a.file))
    ELSE LET named == [st EXCEPT !.locals.name = UploadName(b, a.file, a.options, rnd)]
         IN IF SignatureEndpoint(b, up, a.options) # ""
            THEN IssuePrepare(Issue(named, "signature",
                                    [url |-> SignatureEndpoint(b, up, a.options)],
                                    "awaitSignature"), a)
            ELSE IssuePrepare(named, a)

\* the upload function from its call to its first await
OnInvoke(b, up, a, st, rnd) ==
    IF CheckPublicKey(up.publicKey) # NoError
    THEN Reject(st, CheckPublicKey(up.publicKey))
    ELSE IF CheckFile(b, a.file) # NoError
    THEN Reject(st, CheckFile(b, a.file))
    ELSE LET named == [st EXCEPT !.locals.name = UploadName(b, a.file, a.options, rnd)]
         IN IF SignatureEndpoint(b, up, a.options) # ""
            THEN Issue(named, "signature",
                       [url |-> SignatureEndpoint(b, up, a.options)], "awaitSignature")
            ELSE IssuePrepare(named, a)

\* variant: a non-success answer is not tested and the upload goes on
\* without a signature
OnSignatureNoStatusCheck(b, a, st, res) ==
    LET got == Received(st, "signature", res)
        set == [got EXCEPT !.locals.signature = res.body.signature,
                           !.locals.payload = res.body.payload]
    IN IF res.net = "fail" THEN Reject(got, MsgFetchFailed)
       ELSE IF ~res.ok THEN IssuePrepare(got, a)
       ELSE IF CheckSignature(b, res.body.signature, res.body.payload) # NoError
       THEN Reject(set, CheckSignature(b, res.body.signature, res.body.payload))
       ELSE IssuePrepare(set, a)

\* from the signature endpoint's response to the prepare request
OnSignature(b, a, st, res) ==
    LET got == Received(st, "signature", res)
        set == [got EXCEPT !.locals.signature = res.body.signature,
                           !.locals.payload = res.body.payload]
    IN IF res.net = "fail" THEN Reject(got, MsgFetchFailed)
       ELSE IF ~res.ok THEN Reject(got, MsgSigFailed)
       ELSE IF CheckSignature(b, res.body.signature, res.body.payload) # NoError
       THEN Reject(set, CheckSignature(b, res.body.signature, res.body.payload))
       ELSE IssuePrepare(set, a)

\* from the prepare response to the transfer request; sent says whether the
\* transport issues a request when index.ts hands it an undefined url
OnPrepare(b, a, st, res, sent) ==
    LET got == Received(st, "prepare", res)
        set == [got EXCEPT !.locals.url = res.body.url,
                           !.locals.hasFields = res.body.hasFields,
                           !.locals.confirmToken = res.body.confirmToken]
    IN IF res.net = "fail" THEN Reject(got, MsgFetchFailed)
       ELSE IF ~res.ok THEN Reject(got, ErrorMessage(res.body))
       ELSE IF CheckPrepare(b, res.body) # NoError
       THEN Reject(set, CheckPrepare(b, res.body))
       ELSE IF res.body.url = "" /\ ~sent THEN Reject(set, MsgTypeError)
       ELSE Issue(set, "transfer",
                  [url |-> res.body.url, size |-> a.file.size], "awaitTransfer")

\* from the transfer's completion to the confirm request
OnTransfer(b, st, res) ==
    LET got == Received(st, "transfer", res)
    IN IF TransferError(b, res) # NoError THEN Reject(got, TransferError(b, res))
       ELSE Issue(got, "confirm",
                  [confirmToken |-> st.locals.confirmToken], "awaitConfirm")

\* from the confirm response to the settlement
OnConfirm(st, res) ==
    LET got == Received(st, "confirm", res)
    IN IF res.net = "fail" THEN Reject(got, MsgFetchFailed)
       ELSE IF ~res.ok THEN Reject(got, ErrorMessage(res.body))
       ELSE Resolve(got, UploadResult(res.body))

\* ------------------------------------------------------------------ state
State(i) == [pc |-> pc[i], log |-> log[i], locals |-> locals[i], outcome |-> outcome[i]]

\* variant: the locals live in the factory's closure, one copy for every
\* invocation of the uploader
ApplyShared(i, st) ==
    /\ pc' = [pc EXCEPT ![i] = st.pc]
    /\ log' = [log EXCEPT ![i] = st.log]
    /\ locals' = [j \in Ids |-> st.locals]
    /\ outcome' = [outcome EXCEPT ![i] = st.outcome]

Apply(i, st) ==
    /\ pc' = [pc EXCEPT ![i] = st.pc]
    /\ log' = [log EXCEPT ![i] = st.log]
    /\ locals' = [locals EXCEPT ![i] = st.locals]
    /\ outcome' = [outcome EXCEPT ![i] = st.outcome]

NoArgs == [file |-> [kind |-> "Other", name |-> "", type |-> "", size |-> 0],
           options |-> [name |-> "", path |-> "", handleSignature |-> "",
                        onProgress |-> FALSE]]

\* the inputs of each revision: the signature endpoint is given where the
\* revision takes it (upload options in index.ts, factory options in
\* part_001); options.name is given to both, index.ts never reads it
Uploaders(b) == { u \in [publicKey : Keys, handleSignature : {"", "/api/sig"}] :
                    b = BuildIndex => u.handleSignature = "" }
Args(b) == { a \in [file : Files, options : Options] :
               b = BuildPart => a.options.handleSignature = "" }

InitSig ==
    /\ windowDefined = FALSE
    /\ clock = 0
    /\ sigCalls = <<>>

\* the generator is exercised in either revision, in or out of a browser,
\* while no upload runs
InitGenerator ==
    /\ build \in Builds
    /\ uploader = [publicKey |-> <<>>, handleSignature |-> ""]
    /\ invs = {}
    /\ args = [i \in Ids |-> NoArgs]
    /\ pc = [i \in Ids |-> "idle"]
    /\ log = [i \in Ids |-> <<>>]
    /\ locals = [i \in Ids |-> NoLocals]
    /\ xfer = [i \in Ids |-> NoXfer]
    /\ progress = [i \in Ids |-> <<>>]
    /\ outcome = [i \in Ids |-> NoOutcome]
    /\ windowDefined \in BOOLEAN
    /\ clock \in ClockStarts
    /\ sigCalls = <<>>

\* an uploader of either revision and the invocations `active`, not yet called
InitUpload(active) ==
    /\ build \in Builds
    /\ uploader \in Uploaders(build)
    /\ invs = active
    /\ args \in [Ids -> Args(build) \cup {NoArgs}]
    /\ \A i \in Ids \ active : args[i] = NoArgs
    /\ \A i \in active : args[i] \in Args(build)
    /\ pc = [i \in Ids |-> "idle"]
    /\ log = [i \in Ids |-> <<>>]
    /\ locals = [i \in Ids |-> NoLocals]
    /\ xfer = [i \in Ids |-> NoXfer]
    /\ progress = [i \in Ids |-> <<>>]
    /\ outcome = [i \in Ids |-> NoOutcome]

Init == InitUpload({1}) /\ InitSig

\* ---------------------------------------------------------------- actions
\* upload(file, options) is called
Invoke(i) ==
    /\ pc[i] = "idle"
    /\ \E rnd \in RandomNames :
         Apply(i, OnInvoke(build, uploader, args[i], State(i), rnd))
    /\ UNCHANGED <<build, uploader, invs, args, xfer, progress, sigVars>>

\* the signature endpoint answers with one of the responses rs
SignatureResponseFrom(i, rs) ==
    /\ pc[i] = "awaitSignature"
    /\ \E res \in rs :
         Apply(i, OnSignature(build, args[i], State(i), res))
    /\ UNCHANGED <<build, uploader, invs, args, xfer, progress, sigVars>>

SignatureResponse(i) == SignatureResponseFrom(i, SigResponses)

\* the prepare endpoint answers with one of the responses rs; the transfer
\* starts
PrepareResponseFrom(i, rs) ==
    /\ pc[i] = "awaitPrepare"
    /\ \E res \in rs, sent \in BOOLEAN :
         /\ Apply(i, OnPrepare(build, args[i], State(i), res, sent))
         /\ xfer' = [xfer EXCEPT ![i] =
                        [total |-> BodyLength(args[i].file),
                         loaded |-> 0, events |-> 0, reported |-> 0]]
    /\ UNCHANGED <<build, uploader, invs, args, progress, sigVars>>

PrepareResponse(i) == PrepareResponseFrom(i, PrepareResponses)

\* the transport reports progress of the transfer: loaded never decreases
\* and never exceeds the body's length; total is the length or unknown (0)
TransferProgress(i) ==
    /\ pc[i] = "awaitTransfer"
    /\ xfer[i].events < MaxEvents
    /\ \E loaded \in xfer[i].loaded .. xfer[i].total, total \in {0, xfer[i].total} :
         /\ xfer' = [xfer EXCEPT ![i].loaded = loaded, ![i].events = @ + 1,
                                  ![i].reported = total]
         /\ progress' = [progress EXCEPT ![i] =
                            IF args[i].options.onProgress
                            THEN Append(@, ProgressValue(loaded, total))
                            ELSE @]
    /\ UNCHANGED <<build, uploader, invs, args, pc, log, locals, outcome, sigVars>>

\* the transfer completes with one of the responses rs
TransferResponseFrom(i, rs) ==
    /\ pc[i] = "awaitTransfer"
    /\ \E res \in rs : Apply(i, OnTransfer(build, State(i), res))
    /\ UNCHANGED <<build, uploader, invs, args, xfer, progress, sigVars>>

TransferResponse(i) == TransferResponseFrom(i, TransferResponses)

\* the confirm endpoint answers with one of the responses rs
ConfirmResponseFrom(i, rs) ==
    /\ pc[i] = "awaitConfirm"
    /\ \E res \in rs : Apply(i, OnConfirm(State(i), res))
    /\ UNCHANGED <<build, uploader, invs, args, xfer, progress, sigVars>>

ConfirmResponse(i) == ConfirmResponseFrom(i, ConfirmResponses)

Next ==
    \E i \in invs :
        \/ Invoke(i)
        \/ SignatureResponse(i)
        \/ PrepareResponse(i)
        \/ TransferProgress(i)
        \/ TransferResponse(i)
        \/ ConfirmResponse(i)

Spec == Init /\ [][Next]_vars

\* every remote call the invocation issues is answered in the end: the
\* runtime resumes the async function as soon as the awaited response is there
Answered ==
    \A i \in Ids :
        /\ WF_vars(SignatureResponse(i))
        /\ WF_vars(PrepareResponse(i))
        /\ WF_vars(TransferResponse(i))
        /\ WF_vars(ConfirmResponse(i))

\* one upload of a file of at most one byte, under its own name at the root
\* path, through an uploader of either revision with any key
InitAnswered ==
    /\ build \in Builds
    /\ uploader \in Uploaders(build)
    /\ invs = {1}
    /\ args \in [Ids -> {a \in Args(build) : /\ a.file.size <= 1
                                              /\ a.options.name = ""
                                              /\ a.options.path = ""}
                         \cup {NoArgs}]
    /\ args[1] # NoArgs
    /\ args[2] = NoArgs
    /\ pc = [i \in Ids |-> "idle"]
    /\ log = [i \in Ids |-> <<>>]
    /\ locals = [i \in Ids |-> NoLocals]
    /\ xfer = [i \in Ids |-> NoXfer]
    /\ progress = [i \in Ids |-> <<>>]
    /\ outcome = [i \in Ids |-> NoOutcome]
    /\ windowDefined = FALSE
    /\ clock = 0
    /\ sigCalls = <<>>

SpecAnswered == InitAnswered /\ [][Next]_vars /\ Answered

\* ------------------------------------- two invocations of one uploader
\* the arguments of two uploads made through one uploader with a valid key:
\* the same one-byte file, under its own name or renamed, with or without a
\* signature endpoint of its own where the revision takes one per upload
PairFile == [kind |-> "File", name |-> "test.txt", type |-> "text/plain", size |-> 1]
PairArgs(b) == { a \in Args(b) :
                   /\ a.file = PairFile
                   /\ a.options.path = ""
                   /\ ~a.options.onProgress }

\* const upload = createRestashUploader(...); upload(f, o1); upload(f, o2)
InitPair ==
    /\ build \in Builds
    /\ uploader \in {u \in Uploaders(build) : u.publicKey = <<"p", "k", "_", "1">>}
    /\ invs = Ids
    /\ args \in [Ids -> PairArgs(build)]
    /\ pc = [i \in Ids |-> "idle"]
    /\ log = [i \in Ids |-> <<>>]
    /\ locals = [i \in Ids |-> NoLocals]
    /\ xfer = [i \in Ids |-> NoXfer]
    /\ progress = [i \in Ids |-> <<>>]
    /\ outcome = [i \in Ids |-> NoOutcome]
    /\ windowDefined = FALSE
    /\ clock = 0
    /\ sigCalls = <<>>

\* the responses the two uploads get: for every step the well-formed ones,
\* a success, a refusal by the server and a failure of the network
PairSigResponses ==
    {r \in SigResponses :
        r.ok => (r.body.signature # "" /\ r.body.payload # "")}
PairPrepareResponses ==
    {r \in PrepareResponses :
        /\ r.ok => (r.body.url # "" /\ r.body.hasFields /\ r.body.confirmToken # "")
        /\ (r.net = "ok" /\ ~r.ok) => r.body.hasError}
PairTransferResponses == {r \in TransferResponses : r.status \in {0, 200, 404}}
PairConfirmResponses ==
    {r \in ConfirmResponses : (r.net = "ok" /\ ~r.ok) => r.body.hasError}

NextPair ==
    \E i \in invs :
        \/ Invoke(i)
        \/ SignatureResponseFrom(i, PairSigResponses)
        \/ PrepareResponseFrom(i, PairPrepareResponses)
        \/ TransferProgress(i)
        \/ TransferResponseFrom(i, PairTransferResponses)
        \/ ConfirmResponseFrom(i, PairConfirmResponses)

SpecPair == InitPair /\ [][NextPair]_vars

\* ------------------------------------------- the generator's actions
\* generateRestashSig(secretKey) / generateSig(secretKey) is called
GenerateSig ==
    /\ Len(sigCalls) < MaxSigCalls
    /\ \E key \in Keys, requestId \in RequestIds(build) :
         sigCalls' = Append(sigCalls, Generate(key, windowDefined, requestId, clock))
    /\ UNCHANGED <<uploadVars, windowDefined, clock>>

\* time passes
Tick ==
    /\ \E c0 \in ClockStarts : clock >= c0 /\ clock < c0 + MaxClock
    /\ clock' = clock + 1
    /\ UNCHANGED <<uploadVars, windowDefined, sigCalls>>

\* the global `window` is defined or deleted (as the tests do)
SetWindow ==
    /\ windowDefined' = ~windowDefined
    /\ UNCHANGED <<uploadVars, clock, sigCalls>>

NextSig == GenerateSig \/ Tick \/ SetWindow

SpecSig == InitGenerator /\ [][NextSig]_vars

\* ------------------------------------------------------------ properties
Started == {i \in invs : pc[i] # "idle"}

RejectedWith(i, msg) == outcome[i].kind = "rejected" /\ outcome[i].message = msg

\* the steps whose request invocation i has issued, in order
RequestedSteps(i) ==
    LET reqs == SelectSeq(log[i], LAMBDA e : e.ev = "req")
    IN [k \in 1..Len(reqs) |-> reqs[k].step]

Requested(i, step) == \E k \in 1..Len(log[i]) : log[i][k].ev = "req" /\ log[i][k].step = step

\* the responses invocation i has received for a step
Responses(i, step) ==
    {log[i][k].data : k \in {n \in 1..Len(log[i]) :
                               log[i][n].ev = "res" /\ log[i][n].step = step}}

KeyIsSecret(key) == Len(key) >= 3 /\ key[1] = "s" /\ key[2] = "k" /\ key[3] = "_"
KeyIsPublic(key) == Len(key) >= 3 /\ key[1] = "p" /\ key[2] = "k" /\ key[3] = "_"
ValidPublicKey == uploader.publicKey # <<>> /\ ~KeyIsSecret(uploader.publicKey)

\* C1: an uploader created with an empty public key rejects every upload,
\* whatever the file and the options, with "Public key is required", and
\* the invocation issues no request at all.
C1_EmptyPublicKeyRejects ==
    \A i \in Started :
        uploader.publicKey = <<>> =>
            /\ RejectedWith(i, "Public key is required")
            /\ log[i] = <<>>

C1_Witness ==
    \E i \in Started :
        /\ uploader.publicKey = <<>>
        /\ args[i].file.name # "" /\ args[i].file.size > 0
        /\ outcome[i].kind = "rejected"

\* C2: a non-empty public key that begins with "sk_" makes every upload
\* reject with "Public key is invalid. You are currently using a secret key"
\* before any request is issued.
C2_SecretKeyRejects ==
    \A i \in Started :
        KeyIsSecret(uploader.publicKey) =>
            /\ RejectedWith(i, "Public key is invalid. You are currently using a secret key")
            /\ log[i] = <<>>

C2_Witness ==
    \E i \in Started :
        /\ KeyIsSecret(uploader.publicKey)
        /\ args[i].file.kind = "File" /\ args[i].file.size > 0
        /\ outcome[i].kind = "rejected"

BadFile(f) == f.name = "" \/ f.type = "" \/ f.size <= 0

\* C3 (as claimed): with a valid public key, an input with an empty name, an
\* empty type or a non-positive size rejects with "File passed in is invalid"
\* before any request, and any other input passes the validation (its first
\* request is issued).
C3_Original ==
    \A i \in Started :
        ValidPublicKey =>
            /\ BadFile(args[i].file) =>
                   (RejectedWith(i, "File passed in is invalid") /\ log[i] = <<>>)
            /\ ~BadFile(args[i].file) => log[i] # <<>>

\* C3 (amended): the claim holds of the uploader of src/src/index.ts; the
\* uploader of src/unnamed/part_001 checks no name, type or size: every File
\* or Blob passes its validation and "File passed in is invalid" is never
\* its rejection.
C3_FileValidation ==
    \A i \in Started :
        ValidPublicKey =>
            /\ build = BuildIndex =>
                   /\ BadFile(args[i].file) =>
                          (RejectedWith(i, "File passed in is invalid") /\ log[i] = <<>>)
                   /\ ~BadFile(args[i].file) => log[i] # <<>>
            /\ build = BuildPart =>
                   /\ args[i].file.kind \in {"File", "Blob"} => log[i] # <<>>
                   /\ ~RejectedWith(i, "File passed in is invalid")

C3_Witness ==
    /\ \E i \in Started :
           /\ ValidPublicKey /\ build = BuildIndex
           /\ args[i].file.name # "" /\ args[i].file.type = ""
           /\ args[i].file.size > 0
           /\ outcome[i].kind = "rejected"

StepRank(step) ==
    CASE step = "signature" -> 1
      [] step = "prepare" -> 2
      [] step = "transfer" -> 3
      [] step = "confirm" -> 4

\* C4: within one invocation the requests are issued in the order signature,
\* prepare, transfer, confirm, each only after the response to the previous
\* request has been received: the log alternates request and response of
\* the same step, and the steps requested are strictly increasing.
C4_Sequential ==
    \A i \in invs :
        /\ \A k \in 1..Len(log[i]) :
               /\ log[i][k].ev = IF k % 2 = 1 THEN "req" ELSE "res"
               /\ k % 2 = 0 => log[i][k].step = log[i][k - 1].step
        /\ \A k \in 1..Len(RequestedSteps(i)) :
               k > 1 => StepRank(RequestedSteps(i)[k - 1]) < StepRank(RequestedSteps(i)[k])

C4_Witness ==
    \E i \in invs :
        /\ outcome[i].kind = "resolved"
        /\ RequestedSteps(i) = <<"signature", "prepare", "transfer", "confirm">>

\* C5: when a signature endpoint is configured and its success response has
\* an empty signature, the upload rejects with "Your signature endpoint did
\* not return a valid signature" and the prepare request is never issued.
C5_EmptySignatureRejects ==
    \A i \in invs :
        (\E r \in Responses(i, "signature") :
             r.net = "ok" /\ r.ok /\ r.body.signature = "") =>
            /\ RejectedWith(i, "Your signature endpoint did not return a valid signature")
            /\ ~Requested(i, "prepare")

MalformedPrepare(r) ==
    /\ r.net = "ok" /\ r.ok
    /\ (r.body.confirmToken = "" \/ r.body.url = "" \/ ~r.body.hasFields)

\* C6: when the prepare step succeeds but its body lacks confirmToken, url
\* or fields, the upload rejects with "Invalid response from prepare upload"
\* and neither the transfer nor the confirm request is issued.
C6_MalformedPrepareRejects ==
    \A i \in invs :
        (\E r \in Responses(i, "prepare") : MalformedPrepare(r)) =>
            /\ RejectedWith(i, "Invalid response from prepare upload")
            /\ ~Requested(i, "transfer")
            /\ ~Requested(i, "confirm")

\* C7: an invocation resolves only if the confirm request was issued and
\* answered with success, and the resolved value is the JSON body of that
\* response, unmodified.
C7_ResolvesWithConfirmBody ==
    \A i \in invs :
        outcome[i].kind = "resolved" =>
            /\ Len(log[i]) >= 2
            /\ log[i][Len(log[i]) - 1].ev = "req"
            /\ log[i][Len(log[i]) - 1].step = "confirm"
            /\ log[i][Len(log[i])].ev = "res"
            /\ log[i][Len(log[i])].step = "confirm"
            /\ log[i][Len(log[i])].data.net = "ok"
            /\ log[i][Len(log[i])].data.ok
            /\ outcome[i].value = log[i][Len(log[i])].data.body

C7_Witness ==
    \E i \in invs :
        /\ outcome[i].kind = "resolved"
        /\ args[i].file.name = "test.txt"
        /\ outcome[i].value.name = "server-name.bin"
        /\ outcome[i].value.id = "f_2"

\* C8: every value passed to onProgress has percent in 0..100, loaded >= 0
\* and not below the loaded of the previous call, and total at least the
\* size of the file, whether or not the transport reports total.
C8_ProgressInRange ==
    \A i \in invs :
        \A k \in 1..Len(progress[i]) :
            /\ progress[i][k].percent >= 0 /\ progress[i][k].percent <= 100
            /\ progress[i][k].loaded >= 0
            /\ k > 1 => progress[i][k].loaded >= progress[i][k - 1].loaded
            /\ progress[i][k].total >= args[i].file.size

\* C9: a call of the generator while `window` is defined throws, for every
\* secret key, without computing the HMAC and without returning a
\* payload/signature pair.
C9_BrowserAlwaysThrows ==
    \A k \in 1..Len(sigCalls) :
        sigCalls[k].window =>
            /\ sigCalls[k].kind = "thrown"
            /\ ~sigCalls[k].hmac
            /\ sigCalls[k].value = NoSig

C9_Witness ==
    \E k \in 1..Len(sigCalls) :
        /\ sigCalls[k].window
        /\ sigCalls[k].key # <<>> /\ ~KeyIsPublic(sigCalls[k].key)
        /\ sigCalls[k].kind = "thrown"

\* C10: an empty secret key throws "Secret key is required" and a non-empty
\* secret key beginning with "pk_" throws "Secret key is invalid. You are
\* currently using a public key"; neither returns a payload or a signature.
C10_BadSecretKeyThrows ==
    \A k \in 1..Len(sigCalls) :
        /\ sigCalls[k].key = <<>> =>
               /\ sigCalls[k].kind = "thrown"
               /\ sigCalls[k].message = "Secret key is required"
               /\ sigCalls[k].value = NoSig
        /\ KeyIsPublic(sigCalls[k].key) =>
               /\ sigCalls[k].kind = "thrown"
               /\ sigCalls[k].message =
                      "Secret key is invalid. You are currently using a public key"
               /\ sigCalls[k].value = NoSig

C10_Witness ==
    /\ \E k \in 1..Len(sigCalls) : sigCalls[k].key = <<>> /\ sigCalls[k].window
    /\ \E k \in 1..Len(sigCalls) : KeyIsPublic(sigCalls[k].key) /\ sigCalls[k].kind = "thrown"

Returned == {k \in 1..Len(sigCalls) : sigCalls[k].kind = "returned"}

\* the positions of ":" in a string
Colons(str) == {j \in 1..Len(str) : str[j] = ":"}

\* the number a string of decimal digits denotes (-1 when it is not one)
DigitValue(c) ==
    CASE c = "0" -> 0 [] c = "1" -> 1 [] c = "2" -> 2 [] c = "3" -> 3
      [] c = "4" -> 4 [] c = "5" -> 5 [] c = "6" -> 6 [] c = "7" -> 7
      [] c = "8" -> 8 [] c = "9" -> 9 [] OTHER -> -1

RECURSIVE ParseDecimal(_, _)
ParseDecimal(str, acc) ==
    IF str = <<>> THEN acc
    ELSE IF DigitValue(Head(str)) < 0 THEN -1
    ELSE ParseDecimal(Tail(str), acc * 10 + DigitValue(Head(str)))

LowerHex == {"0", "1", "2", "3", "4", "5", "6", "7", "8", "9",
             "a", "b", "c", "d", "e", "f"}

\* C11: for every accepted secret key outside a browser, the payload
\* returned is "{nonce}:{timestampMillis}" with exactly one ":" (the nonce
\* drawn, then the decimal timestamp of the call), and the signature is the
\* hex HMAC-SHA256 of that payload under that key: lowercase hexadecimal
\* digits, of the one fixed length.
C11_PayloadAndSignatureForm ==
    \A k \in Returned :
        LET call == sigCalls[k]
            p == call.value.payload
        IN /\ ~call.window
           /\ Cardinality(Colons(p)) = 1
           /\ \A j \in Colons(p) :
                  /\ SubSeq(p, 1, j - 1) = call.requestId
                  /\ j < Len(p)
                  /\ ParseDecimal(SubSeq(p, j + 1, Len(p)), 0) = call.timestamp
           /\ call.value.signature = HmacSha256Hex(call.key, p)
           /\ Len(call.value.signature) = 2 * DigestBytes
           /\ \A j \in 1..Len(call.value.signature) :
                  call.value.signature[j] \in LowerHex

C11_Witness ==
    \E k \in Returned :
        /\ sigCalls[k].timestamp > 9
        /\ sigCalls[k].key = <<"s", "k", "_", "1">>
        /\ \E j \in 1..Len(sigCalls[k].value.signature) :
               sigCalls[k].value.signature[j] \in {"a", "b", "c", "d", "e", "f"}

\* C13: with a valid public key, an input that is neither a File nor a Blob
\* rejects with "Invalid file passed in. Please pass in a File or Blob"
\* before any request is issued.
C13_NonBlobRejects ==
    \A i \in Started :
        (ValidPublicKey /\ args[i].file.kind \notin {"File", "Blob"}) =>
            /\ RejectedWith(i, "Invalid file passed in. Please pass in a File or Blob")
            /\ log[i] = <<>>

\* the bodies of the prepare requests invocation i has issued
PrepareRequests(i) ==
    {log[i][k].data : k \in {n \in 1..Len(log[i]) :
                               log[i][n].ev = "req" /\ log[i][n].step = "prepare"}}

\* C14: the name sent in the prepare request is options.name when that is
\* non-empty, otherwise the file's own name for a File, otherwise (a raw
\* Blob) a generated random name; a name the caller supplied is never
\* replaced.
C14_PrepareName ==
    \A i \in invs :
        \A body \in PrepareRequests(i) :
            IF args[i].options.name # "" THEN body.name = args[i].options.name
            ELSE IF args[i].file.kind = "File" THEN body.name = args[i].file.name
            ELSE body.name \in RandomNames

\* a response that reports the failure of its step: the endpoint was not
\* reached, answered with a non-success status, or answered with a body
\* that lacks what the step must supply
FailedResponse(e) ==
    /\ e.ev = "res"
    /\ \/ e.data.net = "fail"
       \/ ~e.data.ok
       \/ e.step = "signature" /\ (e.data.body.signature = "" \/ e.data.body.payload = "")
       \/ e.step = "prepare" /\ MalformedPrepare(e.data)

\* C15: no step is retried and every failure is final: each endpoint is
\* requested at most once, and a failed step (validation, non-success
\* status, malformed response) is the last thing the invocation does on the
\* network: it has rejected and no request follows.
C15_NoRetryFailureFinal ==
    \A i \in invs :
        /\ \A j, k \in 1..Len(RequestedSteps(i)) :
               j # k => RequestedSteps(i)[j] # RequestedSteps(i)[k]
        /\ outcome[i].kind = "rejected" =>
               (log[i] = <<>> \/ log[i][Len(log[i])].ev = "res")
        /\ \A k \in 1..Len(log[i]) :
               FailedResponse(log[i][k]) =>
                   (k = Len(log[i]) /\ outcome[i].kind = "rejected")

\* C16 (as claimed): a signature endpoint that is unreachable or answers
\* with a non-success status makes the upload reject with "Failed to get
\* signature", and the prepare request is never issued.
C16_Original ==
    \A i \in invs :
        \A r \in Responses(i, "signature") :
            (r.net = "fail" \/ ~r.ok) =>
                /\ RejectedWith(i, "Failed to get signature")
                /\ ~Requested(i, "prepare")

\* C16 (amended): a non-success status of the signature endpoint rejects
\* with "Failed to get signature"; an unreachable endpoint rejects with the
\* error of fetch itself; in both cases the prepare request is never issued.
C16_SignatureFailure ==
    \A i \in invs :
        \A r \in Responses(i, "signature") :
            /\ (r.net = "ok" /\ ~r.ok) =>
                   /\ RejectedWith(i, "Failed to get signature")
                   /\ ~Requested(i, "prepare")
            /\ r.net = "fail" =>
                   /\ RejectedWith(i, MsgFetchFailed)
                   /\ ~Requested(i, "prepare")

C16_Witness ==
    \E i \in invs :
        /\ \E r \in Responses(i, "signature") : r.net = "ok" /\ ~r.ok
        /\ outcome[i].kind = "rejected"
        /\ Len(log[i]) = 2

\* C17: a transfer that completes with a status outside 200..299 rejects
\* with "Failed to upload file" and the confirm request is never issued;
\* the confirm request is issued only after a transfer that completed with
\* a 2xx status.
C17_TransferStatus ==
    \A i \in invs :
        /\ \A r \in Responses(i, "transfer") :
               (r.net = "ok" /\ (r.status < 200 \/ r.status > 299)) =>
                   /\ RejectedWith(i, "Failed to upload file")
                   /\ ~Requested(i, "confirm")
        /\ Requested(i, "confirm") =>
               \E r \in Responses(i, "transfer") :
                   r.net = "ok" /\ r.status >= 200 /\ r.status <= 299

\* errors that come from the client's own handling of a response, not from
\* the server
InternalErrors == {MsgTypeError}

\* C18: a non-success answer of prepare or confirm rejects the upload, with
\* the server's error.message when the body carries one and with a generic
\* message otherwise: never with an internal error, and it never resolves.
C18_ServerErrorSurfaced ==
    \A i \in invs :
        \A step \in {"prepare", "confirm"} :
            \A r \in Responses(i, step) :
                (r.net = "ok" /\ ~r.ok) =>
                    /\ outcome[i].kind = "rejected"
                    /\ r.body.hasError => outcome[i].message = r.body.message
                    /\ outcome[i].message \notin InternalErrors

\* C19: the signature endpoint is requested exactly when a reference to it
\* was supplied, and every prepare request carries signature and payload as
\* a pair: both as the endpoint returned them when one was supplied,
\* neither when none was; never one without the other.
C19_SignaturePair ==
    \A i \in invs :
        LET supplied == SignatureEndpoint(build, uploader, args[i].options) # ""
        IN /\ Requested(i, "signature") => supplied
           /\ (supplied /\ log[i] # <<>>) => log[i][1].step = "signature"
           /\ \A body \in PrepareRequests(i) :
                  /\ body.hasSignature = body.hasPayload
                  /\ ~supplied => (~body.hasSignature /\ ~body.hasPayload)
                  /\ supplied =>
                         /\ body.hasSignature /\ body.hasPayload
                         /\ \A r \in Responses(i, "signature") :
                                /\ body.signature = r.body.signature
                                /\ body.payload = r.body.payload

\* C20: each transfer-progress event (loaded, total) calls onProgress, when
\* supplied, exactly once, with loaded unchanged, total replaced by 1 when
\* unknown or zero, and percent the nearest integer to loaded * 100 / total
\* for that total; without a callback the event changes nothing of the
\* invocation and raises no error.
C20_ProgressCallback ==
    [][\A i \in invs :
          xfer'[i].events = xfer[i].events + 1 =>
              LET loaded == xfer'[i].loaded
                  total == IF xfer'[i].reported = 0 THEN 1 ELSE xfer'[i].reported
              IN /\ pc'[i] = pc[i] /\ outcome'[i] = outcome[i] /\ log'[i] = log[i]
                 /\ ~args[i].options.onProgress => progress'[i] = progress[i]
                 /\ args[i].options.onProgress =>
                        /\ Len(progress'[i]) = Len(progress[i]) + 1
                        /\ SubSeq(progress'[i], 1, Len(progress[i])) = progress[i]
                        /\ LET v == progress'[i][Len(progress'[i])]
                           IN /\ v.loaded = loaded
                              /\ v.total = total
                              /\ 2 * v.percent * total <= 200 * loaded + total
                              /\ 200 * loaded + total < 2 * v.percent * total + 2 * total
      ]_vars

C20_Witness ==
    \E i \in invs :
        /\ Len(progress[i]) = 2
        /\ progress[i][1].total = 3 /\ progress[i][1].percent = 67
        /\ progress[i][2].total = 1 /\ progress[i][2].percent = 200

\* the responses invocation i has received, in order, each with its step
ResponsesOf(i) == SelectSeq(log[i], LAMBDA e : e.ev = "res")

StepOf(p) == CASE p = "awaitSignature" -> "signature"
               [] p = "awaitPrepare" -> "prepare"
               [] p = "awaitTransfer" -> "transfer"
               [] p = "awaitConfirm" -> "confirm"
               [] OTHER -> "none"

Idle == [pc |-> "idle", log |-> <<>>, locals |-> NoLocals, outcome |-> NoOutcome]
Diverged == [pc |-> "diverged", log |-> <<>>, locals |-> NoLocals, outcome |-> NoOutcome]

\* an invocation run alone from st: it is handed the responses resps one
\* after the other, each when it waits for that step
RECURSIVE RunAlone(_, _, _, _, _)
RunAlone(b, a, st, resps, sent) ==
    IF resps = <<>> THEN st
    ELSE IF StepOf(st.pc) # Head(resps).step THEN Diverged
    ELSE LET r == Head(resps).data
             next == CASE st.pc = "awaitSignature" -> OnSignature(b, a, st, r)
                       [] st.pc = "awaitPrepare" -> OnPrepare(b, a, st, r, sent)
                       [] st.pc = "awaitTransfer" -> OnTransfer(b, st, r)
                       [] OTHER -> OnConfirm(st, r)
         IN RunAlone(b, a, next, Tail(resps), sent)

\* C21: two invocations made through one uploader share no mutable state:
\* under every interleaving of their steps, the requests each has issued and
\* its outcome (resolved value or rejection message) are those of the same
\* invocation run alone with the same inputs and the same responses; a
\* failure of one neither fails nor alters the other.
C21_Independent ==
    \A i \in Started :
        \E rnd \in RandomNames, sent \in BOOLEAN :
            State(i) = RunAlone(build, args[i],
                                OnInvoke(build, uploader, args[i], Idle, rnd),
                                ResponsesOf(i), sent)

\* one invocation has failed at a remote step while the other, called with
\* other options, went through its steps and resolved
C21_Witness ==
    /\ invs = Ids
    /\ args[1] # args[2]
    /\ outcome[1].kind = "rejected" /\ Len(ResponsesOf(1)) >= 2
    /\ outcome[2].kind = "resolved" /\ Len(ResponsesOf(2)) >= 3

Awaiting == {"awaitSignature", "awaitPrepare", "awaitTransfer", "awaitConfirm"}

Settled(i) == outcome[i].kind \in {"resolved", "rejected"}

\* C22: when every remote call it issues is answered, an invocation that was
\* called settles in the end, once and for all, as resolved or rejected:
\* after its settlement nothing of it changes and it issues no request.
\* While the call it waits for is not answered the invocation stays at that
\* step: it does not settle and issues no request, whatever else happens
\* and however long (no timeout, no cancellation).
C22_SettlesOnceOrBlocks ==
    /\ \A i \in Ids : (pc[i] # "idle") ~> Settled(i)
    /\ [](\A i \in invs :
            /\ Settled(i) => pc[i] = "done"
            /\ pc[i] \in Awaiting =>
                   /\ ~Settled(i)
                   /\ log[i][Len(log[i])] = Req(StepOf(pc[i]), log[i][Len(log[i])].data))
    /\ [][\A i \in invs :
            /\ Settled(i) => (State(i)' = State(i))
            /\ (pc[i] \in Awaiting /\ ResponsesOf(i)' = ResponsesOf(i)) =>
                   (State(i)' = State(i))
            /\ (pc[i] \in Awaiting /\ ResponsesOf(i)' # ResponsesOf(i)) =>
                   /\ Len(ResponsesOf(i)') = Len(ResponsesOf(i)) + 1
                   /\ ResponsesOf(i)'[Len(ResponsesOf(i)')].step = StepOf(pc[i])
      ]_vars

\* one invocation resolved after its four calls were answered
C22_Witness ==
    \E i \in invs :
        /\ outcome[i].kind = "resolved"
        /\ Len(ResponsesOf(i)) = 4

====
